---- MODULE Spec2Model ----
(***************************************************************************)
(* ScriptDeck: the process runner (src/runner.py, class ScriptRunner) and  *)
(* the part of the catalog store it writes to (src/db.py, bump_run).       *)
(*                                                                         *)
(* The runner lives on the single Qt event-loop thread.  Its signals       *)
(* (started, stdout, stderr, finished) are delivered synchronously, so a   *)
(* subscriber runs inside run() (between started.emit and proc.start())    *)
(* and inside _on_finished (between finished.emit and the cleanup) and may *)
(* call back into the runner.  `stack` holds those suspended handlers.     *)
(* QProcess notifications (ready-read, finished) arrive only from the      *)
(* event loop, that is when `stack` is empty.  A stop call (kill_run, ..) *)
(* is on the stack from its call to its return; it calls no subscriber.    *)
(*                                                                         *)
(* A QProcess object exists from run() until the cleanup of _on_finished   *)
(* hands it to deleteLater(); `hstate`, `conn` and `trace` describe the    *)
(* objects that exist.                                                     *)
(*                                                                         *)
(* Spec is the runner with its processes and the catalog.  Further         *)
(* specifications add one thing each: ReconcilerSpec exit notifications    *)
(* for unknown run ids, ShutdownSpec the closing of the main window        *)
(* (src/main.py, closeEvent), TreeSpec scripts that start processes of     *)
(* their own, OsFailSpec calls to the OS and to QProcess that raise        *)
(* during a stop call, OutputSpec chunks of more kinds of bytes.  FairSpec *)
(* and KillFairSpec state what is assumed to happen eventually.            *)
(***************************************************************************)
EXTENDS Integers, Sequences, FiniteSets, TLC

\* ----- bounds ---------------------------------------------------------------
MaxRuns == 2        \* run() calls in one behaviour
MaxChunks == 1      \* ready-read notifications in one behaviour

\* ----- program constants ----------------------------------------------------
UnknownSid == -1    \* _sid_by_run.get(run_id, -1)

Sids == {1, 2}                  \* script ids: a script and another script
RunIds == 1..(MaxRuns + 1)      \* ids a caller may pass; MaxRuns+1 is never issued
ExitCodes == {0, 1}
ByteInputs == {<<104>>, <<104, 255>>}   \* "h" and "h" followed by an invalid byte

VARIABLES
    win,            \* sys.platform.startswith("win")
    next_run_id,    \* self._next_run_id
    procs,          \* self._procs       : run_id -> QProcess
    sid_by_run,     \* self._sid_by_run  : run_id -> sid
    runs_by_sid,    \* self._runs_by_sid : sid -> set of run_id
    next_handle,    \* identity of the next QProcess object
    issued_ids,     \* the run ids run() has handed out so far
    hstate,         \* QProcess object -> its state
    descendants,    \* QProcess objects whose process has live descendant processes
    chunks,         \* ready-read notifications delivered so far
    conn,           \* QProcess object -> values bound by the connected lambdas
    returned,       \* run_id -> the value the run() call of that run returned
    raised,         \* the exception that left the latest stop call, or None
    run_count,      \* scripts table: id -> run_count (rows that exist)
    stack,          \* suspended handlers, innermost last
    trace           \* run_id -> signals emitted and bump_run calls for that run, in order

vars == <<win, next_run_id, procs, sid_by_run, runs_by_sid, next_handle, issued_ids,
          hstate, descendants, chunks, conn, returned, raised, run_count, stack, trace>>

registry == <<next_run_id, procs, sid_by_run, runs_by_sid>>

\* ----- helpers --------------------------------------------------------------
Put(f, k, v) == [x \in (DOMAIN f) \cup {k} |-> IF x = k THEN v ELSE f[x]]

Drop(f, k) == [x \in (DOMAIN f) \ {k} |-> f[x]]

Get(f, k, default) == IF k \in DOMAIN f THEN f[k] ELSE default

Top == stack[Len(stack)]

Pop == SubSeq(stack, 1, Len(stack) - 1)

\* A suspended handler: run() and _on_finished while their subscribers run
\* (h: the QProcess), and a stop call with the requests it issued to the OS /
\* QProcess.
Frame(op, run_id, sid, h, issued) ==
    [op |-> op, run_id |-> run_id, sid |-> sid, h |-> h, issued |-> issued]

SubscriberOps == {"run", "_on_finished"}

StopOps == {"kill_run", "terminate_run", "kill_sid", "terminate_sid", "kill_all"}

\* the runner can be called from the event loop or from a subscriber
Callable == IF stack = <<>> THEN TRUE ELSE stack[Len(stack)].op \in SubscriberOps

Event(kind, run_id, sid, code, text) ==
    [kind |-> kind, run |-> run_id, sid |-> sid, code |-> code, text |-> text]

\* bytes(...).decode("utf-8", errors="ignore"): the code points of the valid
\* sequences; a byte that starts no valid sequence, and a sequence cut off by
\* the end of the chunk, are dropped.  One- and two-byte sequences are
\* decoded; no input of the model holds a lead byte of a longer sequence.
RECURSIVE Decode(_)
Decode(bytes) ==
    IF bytes = <<>> THEN <<>>
    ELSE LET b == Head(bytes)
         IN  IF b < 128 THEN <<b>> \o Decode(Tail(bytes))
             ELSE IF b \in 194..223 /\ Len(bytes) >= 2 /\ bytes[2] \in 128..191
                  THEN <<(b - 192) * 64 + (bytes[2] - 128)>> \o Decode(Tail(Tail(bytes)))
             ELSE Decode(Tail(bytes))

\* QProcess.state(): Running from a successful start() until QProcess reports
\* the exit of the process
ProcState(h) == IF hstate[h] = "Running" THEN "Running" ELSE "NotRunning"

\* QProcess.processId(): 0 unless the process is running
ProcessId(h) == IF ProcState(h) = "Running" THEN h ELSE 0

Init ==
    /\ win \in BOOLEAN
    /\ next_run_id = 1
    /\ procs = <<>>
    /\ sid_by_run = <<>>
    /\ runs_by_sid = <<>>
    /\ next_handle = 1
    /\ issued_ids = {}
    /\ hstate = <<>>
    /\ descendants = {}
    /\ chunks = 0
    /\ conn = <<>>
    /\ returned = <<>>
    /\ raised = <<>>
    /\ run_count = [s \in Sids |-> 0]
    /\ stack = <<>>
    /\ trace = <<>>

\* ----- ScriptRunner.run -----------------------------------------------------
\* (variant: the id is derived from the number of registered runs)
RunRegister_IdFromSize(sid, proc) ==
    /\ next_run_id' = Cardinality(DOMAIN procs) + 2
    /\ procs' = Put(procs, next_run_id, proc)
    /\ sid_by_run' = Put(sid_by_run, next_run_id, sid)
    /\ runs_by_sid' = Put(runs_by_sid, sid, Get(runs_by_sid, sid, {}) \cup {next_run_id})

\* (variant: a run is not registered while another run is active)
RunRegister_RejectBusy(sid, proc) ==
    IF DOMAIN procs # {}
    THEN UNCHANGED registry
    ELSE /\ next_run_id' = next_run_id + 1
         /\ procs' = Put(procs, next_run_id, proc)
         /\ sid_by_run' = Put(sid_by_run, next_run_id, sid)
         /\ runs_by_sid' = Put(runs_by_sid, sid, Get(runs_by_sid, sid, {}) \cup {next_run_id})

\* lines 44-48: allocate the run id and register the run
RunRegister(sid, proc) ==
    /\ next_run_id' = next_run_id + 1
    /\ procs' = Put(procs, next_run_id, proc)
    /\ sid_by_run' = Put(sid_by_run, next_run_id, sid)
    /\ runs_by_sid' = Put(runs_by_sid, sid, Get(runs_by_sid, sid, {}) \cup {next_run_id})

\* What the application passes to run() for a script (src/main.py 287-295):
\* the path stored with the script and the arguments of the details pane; no
\* interpreter and no working directory are given for these scripts.
ScriptPath(sid) == IF sid = 1 THEN "/scripts/a.py" ELSE "/scripts/tools/b.py"

ScriptArgs(sid) == IF sid = 1 THEN <<>> ELSE <<"--port", "80">>

\* line 36: python_executable or sys.executable
Prog == "sys.executable"

\* line 41: working_dir or str(Path(script_path).parent)
WorkingDir(script_path) ==
    IF script_path = "/scripts/a.py" THEN "/scripts" ELSE "/scripts/tools"

\* lines 59-61: f"{prog} -u {script_path} " + " ".join(args) + f" (cwd={wd})",
\* as the sequence of its parts
CmdLine(script_path, args) ==
    <<Prog, "-u", script_path>> \o args \o <<"(cwd=", WorkingDir(script_path), ")">>

\* (variant: started is not emitted)
EmitStarted_Missing(run_id, sid) == <<>>

\* (variant: started is emitted when the run is registered and again before
\* the process is started)
EmitStarted_Twice(run_id, sid) ==
    << Event("started", run_id, sid, 0, CmdLine(ScriptPath(sid), ScriptArgs(sid))),
       Event("started", run_id, sid, 0, CmdLine(ScriptPath(sid), ScriptArgs(sid))) >>

\* line 62: self.started.emit(int(sid), cmdline)
EmitStarted(run_id, sid) ==
    <<Event("started", run_id, sid, 0, CmdLine(ScriptPath(sid), ScriptArgs(sid)))>>

\* run() up to and including started.emit; the subscriber of started runs next
RunCall(sid) ==
    /\ next_run_id <= MaxRuns
    /\ Callable
    /\ RunRegister(sid, next_handle)
    /\ next_handle' = next_handle + 1
    /\ issued_ids' = issued_ids \cup {next_run_id}
    /\ hstate' = Put(hstate, next_handle, "Created")
    /\ conn' = Put(conn, next_handle, [run_id |-> next_run_id, sid |-> sid])
    /\ trace' = Put(trace, next_run_id, Get(trace, next_run_id, <<>>) \o EmitStarted(next_run_id, sid))
    /\ stack' = Append(stack, Frame("run", next_run_id, sid, next_handle, {}))
    /\ UNCHANGED <<win, raised, returned, descendants, run_count, chunks>>

\* Python values: None, and an int n
None == <<>>

PyInt(n) == <<n>>

\* lines 26-63 hold no return statement: the call evaluates to None
RunReturn(run_id) == None

\* line 63: proc.start() once the started subscribers have returned.  ok: the
\* OS can spawn the program in the working directory.  If it cannot, QProcess
\* reports FailedToStart through errorOccurred, which run() connects to
\* nothing, and emits no finished signal.  run() then returns to its caller.
RunStart(ok) ==
    /\ stack # <<>>
    /\ Top.op = "run"
    /\ hstate' = [hstate EXCEPT ![Top.h] = IF ok THEN "Running" ELSE "FailedToStart"]
    /\ returned' = Put(returned, Top.run_id, RunReturn(Top.run_id))
    /\ stack' = Pop
    /\ UNCHANGED <<win, raised, descendants, registry, next_handle, issued_ids, chunks, conn, run_count, trace>>

\* ----- stop / terminate ----------------------------------------------------
Request(run_id, kind) == [run |-> run_id, kind |-> kind]

\* (variant: the signal is sent but proc.kill() is not called)
KillRunRequests_SignalOnly(run_id) ==
    IF run_id \notin DOMAIN procs THEN {}
    ELSE LET proc == procs[run_id]
             pid == ProcessId(proc)
         IN  IF win /\ pid # 0
             THEN {Request(run_id, "taskkill /T /F")}
             ELSE IF pid # 0 THEN {Request(run_id, "SIGTERM")} ELSE {}

\* (variant: proc.kill() is called without looking at proc.state())
KillRunRequests_NoStateCheck(run_id) ==
    IF run_id \notin DOMAIN procs THEN {}
    ELSE LET proc == procs[run_id]
             pid == ProcessId(proc)
         IN  IF win /\ pid # 0
             THEN {Request(run_id, "taskkill /T /F")}
             ELSE (IF pid # 0 THEN {Request(run_id, "SIGTERM")} ELSE {})
                  \cup {Request(run_id, "QProcess.kill")}

\* lines 74-100: what kill_run(run_id) asks of the OS and of QProcess
KillRunRequests(run_id) ==
    IF run_id \notin DOMAIN procs THEN {}
    ELSE LET proc == procs[run_id]
             pid == ProcessId(proc)
         IN  IF win /\ pid # 0
             THEN {Request(run_id, "taskkill /T /F")}
             ELSE (IF pid # 0 THEN {Request(run_id, "SIGTERM")} ELSE {})
                  \cup (IF ProcState(proc) # "NotRunning"
                        THEN {Request(run_id, "QProcess.kill")} ELSE {})

\* lines 102-125: what terminate_run(run_id) asks of the OS and of QProcess
TerminateRunRequests(run_id) ==
    IF run_id \notin DOMAIN procs THEN {}
    ELSE LET proc == procs[run_id]
             pid == ProcessId(proc)
         IN  IF win /\ pid # 0
             THEN {Request(run_id, "taskkill /T")}
             ELSE (IF pid # 0 THEN {Request(run_id, "SIGTERM")} ELSE {})
                  \cup (IF ProcState(proc) # "NotRunning"
                        THEN {Request(run_id, "QProcess.terminate")} ELSE {})

\* (variant: a script id without runs selects every run)
RunsOfSid_DefaultAll(sid) == Get(runs_by_sid, sid, DOMAIN procs)

\* list(self._runs_by_sid.get(int(sid), set()))
RunsOfSid(sid) == Get(runs_by_sid, sid, {})

\* taskkill /F and QProcess.kill() (SIGKILL) cannot be ignored by the process
ForcefulKinds == {"taskkill /T /F", "QProcess.kill"}

Targets(requests) == {q.run : q \in requests}

ForcefulTargets(requests) == Targets({q \in requests : q.kind \in ForcefulKinds})

\* taskkill /T /F ends the process with that pid and every process started by
\* it; a signal sent with os.kill and QProcess.kill() reach the one process
TreeKinds == {"taskkill /T /F"}

\* the QProcess objects whose process tree the requests end
TreeKilled(requests) ==
    {procs[q.run] : q \in {x \in requests : x.kind \in TreeKinds}}

\* (variant: a stop call forgets the QProcess of the run it was given)
StopCall_ForgetsRun(op, run_id, sid, issued) ==
    /\ Callable
    /\ stack' = Append(stack, Frame(op, run_id, sid, 0, issued))
    /\ procs' = Drop(procs, run_id)
    /\ descendants' = descendants \ TreeKilled(issued)
    /\ UNCHANGED <<win, raised, returned, next_run_id, sid_by_run, runs_by_sid, next_handle, issued_ids,
                   hstate, chunks, conn, run_count, trace>>

\* A stop call emits no signal and touches neither the registry nor the
\* QProcess objects; it only issues requests, which the operating system
\* carries out before the call returns (subprocess.run waits for taskkill).
StopCall(op, run_id, sid, issued) ==
    /\ Callable
    /\ stack' = Append(stack, Frame(op, run_id, sid, 0, issued))
    /\ descendants' = descendants \ TreeKilled(issued)
    /\ UNCHANGED <<win, raised, returned, registry, next_handle, issued_ids, hstate, chunks, conn, run_count, trace>>

kill_run(run_id) == StopCall("kill_run", run_id, 0, KillRunRequests(run_id))

terminate_run(run_id) == StopCall("terminate_run", run_id, 0, TerminateRunRequests(run_id))

kill_sid(sid) ==
    StopCall("kill_sid", 0, sid, UNION {KillRunRequests(r) : r \in RunsOfSid(sid)})

terminate_sid(sid) ==
    StopCall("terminate_sid", 0, sid, UNION {TerminateRunRequests(r) : r \in RunsOfSid(sid)})

\* (variant: only the oldest registered run is killed)
kill_all_OldestOnly ==
    StopCall("kill_all", 0, 0,
             UNION {KillRunRequests(r) : r \in {q \in DOMAIN procs : \A p \in DOMAIN procs : q <= p}})

\* lines 127-129
kill_all ==
    StopCall("kill_all", 0, 0, UNION {KillRunRequests(r) : r \in DOMAIN procs})

\* ----- stop / terminate when a call to the OS or to QProcess fails -------------
\* the calls kill_run and terminate_run make, and "none": no call fails
OsCalls == {"processId", "taskkill", "os.kill", "state", "QProcess"}

Failures == OsCalls \cup {"none"}

\* (variant: os.kill is called outside try/except)
Guarded_SignalBare(call) == call # "os.kill"

\* lines 78-100 and 106-125: every call to the OS and to QProcess is inside
\* try: ... except Exception
Guarded(call) == TRUE

\* lines 78-81: pid = None when processId() raises
PidOrNone(proc, fail) == IF fail = "processId" THEN 0 ELSE ProcessId(proc)

\* The calls kill_run (force) / terminate_run makes for run_id when the call
\* `fail` raises, in their order; a call that raises outside try/except ends
\* the operation
CallsOf(run_id, fail) ==
    IF run_id \notin DOMAIN procs THEN <<>>
    ELSE LET proc == procs[run_id]
             pid == PidOrNone(proc, fail)
             all == <<"processId">> \o
                    (IF win /\ pid # 0
                     THEN <<"taskkill">>
                     ELSE (IF pid # 0 THEN <<"os.kill">> ELSE <<>>) \o <<"state">> \o
                          (IF fail # "state" /\ ProcState(proc) # "NotRunning"
                           THEN <<"QProcess">> ELSE <<>>))
             stop == {i \in DOMAIN all : all[i] = fail /\ ~Guarded(fail)}
         IN  IF stop = {} THEN all
             ELSE SubSeq(all, 1, CHOOSE i \in stop : \A j \in stop : i <= j)

\* the exception leaves the operation
Escapes(run_id, fail) ==
    \E i \in DOMAIN CallsOf(run_id, fail) : CallsOf(run_id, fail)[i] = fail /\ ~Guarded(fail)

\* the requests among the calls made
RequestOf(run_id, call, force) ==
    IF call = "taskkill" THEN {Request(run_id, IF force THEN "taskkill /T /F" ELSE "taskkill /T")}
    ELSE IF call = "os.kill" THEN {Request(run_id, "SIGTERM")}
    ELSE IF call = "QProcess"
         THEN {Request(run_id, IF force THEN "QProcess.kill" ELSE "QProcess.terminate")}
    ELSE {}

Attempted(run_id, fail, force) ==
    UNION {RequestOf(run_id, CallsOf(run_id, fail)[i], force) : i \in DOMAIN CallsOf(run_id, fail)}

\* A stop call over the runs `runs` while the call `fail` to the OS or to
\* QProcess raises: the loop of kill_sid / terminate_sid / kill_all ends with
\* the first exception that leaves kill_run / terminate_run
StopCallOs(op, run_id, sid, runs, fail, force) ==
    /\ Callable
    /\ stack' = Append(stack, Frame(op, run_id, sid, 0,
                                    UNION {Attempted(r, fail, force) : r \in runs}))
    /\ raised' = IF \E r \in runs : Escapes(r, fail) THEN <<fail>> ELSE None
    /\ descendants' = descendants \ TreeKilled(UNION {Attempted(r, fail, force) : r \in runs})
    /\ UNCHANGED <<win, returned, registry, next_handle, issued_ids, hstate, chunks, conn, run_count, trace>>

\* the stop call returns to its caller
StopReturn ==
    /\ stack # <<>>
    /\ Top.op \in StopOps
    /\ stack' = Pop
    /\ UNCHANGED <<win, raised, returned, descendants, registry, next_handle, issued_ids, hstate, chunks, conn, run_count, trace>>

\* ----- QProcess / OS ---------------------------------------------------------
\* (variant: the chunk is reported with the script id of the latest run())
ReadyReadEvent_LatestSid(h, kind, bytes) ==
    Event(kind, conn[h].run_id, Get(sid_by_run, next_run_id - 1, UnknownSid), 0, Decode(bytes))

\* lines 51-56: readyReadStandardOutput / readyReadStandardError of a process,
\* delivered by the event loop while the process runs or, for what is left in
\* the pipes, right before Qt reports its exit.
ReadyReadEvent(h, kind, bytes) ==
    Event(kind, conn[h].run_id, conn[h].sid, 0, Decode(bytes))

\* (variant: decode with errors="strict"; UnicodeDecodeError leaves the lambda
\* before the emit)
ReadyReadEmits_Strict(h, kind, bytes) ==
    IF \A i \in DOMAIN bytes : bytes[i] < 128
    THEN <<ReadyReadEvent(h, kind, bytes)>>
    ELSE <<>>

\* what one notification emits: decode never raises, so one event
ReadyReadEmits(h, kind, bytes) == <<ReadyReadEvent(h, kind, bytes)>>

ReadyRead(h, kind, bytes) ==
    /\ stack = <<>>
    /\ hstate[h] = "Running"
    /\ chunks < MaxChunks
    /\ chunks' = chunks + 1
    /\ trace' = [trace EXCEPT ![conn[h].run_id] = @ \o ReadyReadEmits(h, kind, bytes)]
    /\ UNCHANGED <<win, raised, returned, descendants, registry, next_handle, issued_ids, hstate, conn, run_count, stack>>

\* ----- db.bump_run / db.delete_script ---------------------------------------
\* (variant: SET run_count = 1)
bump_run_SetToOne(sid, dbok) ==
    IF dbok /\ sid \in DOMAIN run_count
    THEN [run_count EXCEPT ![sid] = 1]
    ELSE run_count

\* UPDATE scripts SET last_run=?, run_count=COALESCE(run_count,0)+1 WHERE id=?
\* (no row with that id: no change); dbok = FALSE: the statement raises
bump_run(sid, dbok) ==
    IF dbok /\ sid \in DOMAIN run_count
    THEN [run_count EXCEPT ![sid] = @ + 1]
    ELSE run_count

\* DELETE FROM scripts WHERE id=?
delete_script(sid) ==
    /\ stack = <<>>
    /\ sid \in DOMAIN run_count
    /\ run_count' = Drop(run_count, sid)
    /\ UNCHANGED <<win, raised, returned, descendants, registry, next_handle, issued_ids, hstate, chunks, conn, stack, trace>>

\* ----- ScriptRunner._on_finished --------------------------------------------
\* (variant: finished is emitted before the statistics are recorded)
OnFinishedTrace_NotifyFirst(run_id, sid, code, dbok) ==
    << Event("finished", run_id, sid, code, <<>>),
       Event("bump_run", run_id, sid, 0, <<>>) >>

\* (variant: an exception of bump_run is not caught and ends the handler)
OnFinishedTrace_Uncaught(run_id, sid, code, dbok) ==
    IF dbok
    THEN << Event("bump_run", run_id, sid, 0, <<>>),
            Event("finished", run_id, sid, code, <<>>) >>
    ELSE << Event("bump_run", run_id, sid, 0, <<>>) >>

\* (variant: an exit notification for an unknown run is dropped silently)
OnFinishedTrace_DropUnknown(run_id, sid, code, dbok) ==
    IF sid = UnknownSid
    THEN <<>>
    ELSE << Event("bump_run", run_id, sid, 0, <<>>),
            Event("finished", run_id, sid, code, <<>>) >>

\* (variant: bump_run is called for exit code 0 only)
OnFinishedTrace_SuccessOnly(run_id, sid, code, dbok) ==
    IF code = 0
    THEN << Event("bump_run", run_id, sid, 0, <<>>),
            Event("finished", run_id, sid, code, <<>>) >>
    ELSE << Event("finished", run_id, sid, code, <<>>) >>

\* lines 134-138: bump_run inside try/except (whether or not it raises), then
\* finished.emit
OnFinishedTrace(run_id, sid, code, dbok) ==
    << Event("bump_run", run_id, sid, 0, <<>>),
       Event("finished", run_id, sid, code, <<>>) >>

\* (variant: an exception of bump_run leaves _on_finished at once)
Reconcile_AbortOnFailure(run_id, h, code, dbok) ==
    LET sid == Get(sid_by_run, run_id, UnknownSid)
    IN  IF dbok
        THEN /\ run_count' = bump_run(sid, dbok)
             /\ trace' = Put(trace, run_id, Get(trace, run_id, <<>>) \o OnFinishedTrace(run_id, sid, code, dbok))
             /\ stack' = Append(stack, Frame("_on_finished", run_id, sid, h, {}))
             /\ UNCHANGED registry
        ELSE /\ trace' = Put(trace, run_id, Append(Get(trace, run_id, <<>>), Event("bump_run", run_id, sid, 0, <<>>)))
             /\ UNCHANGED <<run_count, stack, registry>>

\* (variant: the QProcess is popped and the maps are cleaned before finished is
\* emitted, so the subscribers of finished run with the run gone)
Reconcile_ReleaseFirst(run_id, h, code, dbok) ==
    LET sid == Get(sid_by_run, run_id, UnknownSid)
    IN  /\ run_count' = bump_run(sid, dbok)
        /\ procs' = Drop(procs, run_id)
        /\ sid_by_run' = Drop(sid_by_run, run_id)
        /\ runs_by_sid' = IF sid \in DOMAIN runs_by_sid
                          THEN [runs_by_sid EXCEPT ![sid] = @ \ {run_id}]
                          ELSE runs_by_sid
        /\ UNCHANGED next_run_id
        /\ trace' = Put(trace, run_id, Get(trace, run_id, <<>>) \o OnFinishedTrace(run_id, sid, code, dbok))
        /\ stack' = Append(stack, Frame("_on_finished", run_id, sid, h, {}))

\* lines 132-138: _on_finished(run_id, exitCode, _status) up to and including
\* finished.emit; the subscriber of finished runs next.  The maps are not
\* touched before line 140.
Reconcile(run_id, h, code, dbok) ==
    LET sid == Get(sid_by_run, run_id, UnknownSid)
    IN  /\ run_count' = bump_run(sid, dbok)
        /\ trace' = Put(trace, run_id, Get(trace, run_id, <<>>) \o OnFinishedTrace(run_id, sid, code, dbok))
        /\ stack' = Append(stack, Frame("_on_finished", run_id, sid, h, {}))
        /\ UNCHANGED registry

\* The process of h exits with exit code `code`; QProcess.finished -> the
\* lambda of line 57 -> _on_finished
OnFinishedCall(h, code, dbok) ==
    /\ stack = <<>>
    /\ hstate[h] = "Running"
    /\ Reconcile(conn[h].run_id, h, code, dbok)
    /\ hstate' = [hstate EXCEPT ![h] = "Finished"]
    /\ UNCHANGED <<win, raised, returned, descendants, next_handle, issued_ids, chunks, conn>>

\* _on_finished is entered with a run id that is in no registry map (an exit
\* notification for a run that was never registered or was reconciled before)
OnFinishedUnknown(run_id, code, dbok) ==
    /\ stack = <<>>
    /\ run_id \notin DOMAIN sid_by_run
    /\ Reconcile(run_id, 0, code, dbok)
    /\ UNCHANGED <<win, raised, returned, descendants, next_handle, issued_ids, hstate, chunks, conn>>

\* (variant: the cleanup empties the map of processes)
CleanupProcs_Clear(run_id) == <<>>

\* lines 140-147: the cleanup
CleanupProcs(run_id) == Drop(procs, run_id)

\* (variant: the run -> script id entry is left behind)
CleanupSidByRun_Kept(run_id) == sid_by_run

CleanupSidByRun(run_id) == Drop(sid_by_run, run_id)

\* (variant: the run id is left in the set of its script)
CleanupRunsBySid_Kept(run_id, sid) == runs_by_sid

\* (variant: the set of the script is popped whatever it still holds)
CleanupRunsBySid_DropSet(run_id, sid) == Drop(runs_by_sid, sid)

\* (variant: the set of the script is kept when it becomes empty)
CleanupRunsBySid_KeepEmpty(run_id, sid) ==
    IF sid \in DOMAIN runs_by_sid
    THEN [runs_by_sid EXCEPT ![sid] = @ \ {run_id}]
    ELSE runs_by_sid

\* lines 143-146
CleanupRunsBySid(run_id, sid) ==
    IF sid \in DOMAIN runs_by_sid
    THEN IF runs_by_sid[sid] \ {run_id} = {}
         THEN Drop(runs_by_sid, sid)
         ELSE [runs_by_sid EXCEPT ![sid] = @ \ {run_id}]
    ELSE runs_by_sid

OnFinishedCleanup ==
    /\ stack # <<>>
    /\ Top.op = "_on_finished"
    /\ procs' = CleanupProcs(Top.run_id)
    /\ IF Top.run_id \in DOMAIN procs
       THEN LET proc == procs[Top.run_id]       \* proc.deleteLater()
            IN  /\ hstate' = Drop(hstate, proc)
                /\ conn' = Drop(conn, proc)
       ELSE UNCHANGED <<hstate, conn>>
    /\ trace' = Drop(trace, Top.run_id)
    /\ runs_by_sid' = CleanupRunsBySid(Top.run_id, Top.sid)
    /\ sid_by_run' = CleanupSidByRun(Top.run_id)
    /\ stack' = Pop
    /\ UNCHANGED <<win, raised, returned, descendants, next_run_id, next_handle, issued_ids, chunks, run_count>>

Next ==
    \/ \E sid \in Sids : RunCall(sid)
    \/ \E ok \in BOOLEAN : RunStart(ok)
    \/ \E run_id \in RunIds : kill_run(run_id)
    \/ \E run_id \in RunIds : terminate_run(run_id)
    \/ \E sid \in Sids : kill_sid(sid)
    \/ \E sid \in Sids : terminate_sid(sid)
    \/ kill_all
    \/ StopReturn
    \/ \E h \in DOMAIN hstate, bytes \in ByteInputs : ReadyRead(h, "stdout", bytes)
    \/ \E h \in DOMAIN hstate, bytes \in ByteInputs : ReadyRead(h, "stderr", bytes)
    \/ \E h \in DOMAIN hstate, code \in ExitCodes, dbok \in BOOLEAN : OnFinishedCall(h, code, dbok)
    \/ OnFinishedCleanup
    \/ \E sid \in Sids : delete_script(sid)

Spec == Init /\ [][Next]_vars

\* Every handler returns: the subscribers of started and finished return
\* after the calls they make into the runner, however many, and so does a stop
\* call.  Nothing obliges a process to exit or to write.
FairSpec ==
    /\ Spec
    /\ SF_vars(\E ok \in BOOLEAN : RunStart(ok))
    /\ SF_vars(OnFinishedCleanup)
    /\ WF_vars(StopReturn)

\* The runner with exit notifications for run ids it does not know; the
\* output of the processes, which _on_finished does not read, is left out
ReconcilerNext ==
    \/ \E sid \in Sids : RunCall(sid)
    \/ \E ok \in BOOLEAN : RunStart(ok)
    \/ \E run_id \in RunIds : kill_run(run_id)
    \/ \E run_id \in RunIds : terminate_run(run_id)
    \/ \E sid \in Sids : kill_sid(sid)
    \/ \E sid \in Sids : terminate_sid(sid)
    \/ kill_all
    \/ StopReturn
    \/ \E h \in DOMAIN hstate, code \in ExitCodes, dbok \in BOOLEAN : OnFinishedCall(h, code, dbok)
    \/ \E run_id \in RunIds, code \in ExitCodes, dbok \in BOOLEAN :
          OnFinishedUnknown(run_id, code, dbok)
    \/ OnFinishedCleanup
    \/ \E sid \in Sids : delete_script(sid)

ReconcilerSpec == Init /\ [][ReconcilerNext]_vars

\* ----- the scripts ---------------------------------------------------------------
\* The script run by h starts a process of its own (a server, a worker)
SpawnDescendant(h) ==
    /\ stack = <<>>
    /\ hstate[h] = "Running"
    /\ h \notin descendants
    /\ descendants' = descendants \cup {h}
    /\ UNCHANGED <<win, raised, returned, registry, next_handle, issued_ids, hstate, chunks, conn, run_count, stack, trace>>

\* The runner with scripts that start processes of their own
TreeNext ==
    \/ Next
    \/ \E h \in DOMAIN hstate : SpawnDescendant(h)

TreeSpec == Init /\ [][TreeNext]_vars

\* ----- MainWindow.closeEvent (src/main.py) -----------------------------------
\* The main window is closed from the event loop: closeEvent saves the
\* geometry, the splitters, the AI panel and the tree state to QSettings and
\* calls super().closeEvent(event).  It calls no method of the runner, so the
\* requests it has issued are none.  The application then leaves its event
\* loop: no handler runs after it.
closeEvent ==
    /\ stack = <<>>
    /\ stack' = Append(stack, Frame("closeEvent", 0, 0, 0, {}))
    /\ UNCHANGED <<win, raised, returned, descendants, registry, next_handle, issued_ids, hstate, chunks, conn, run_count, trace>>

\* The runner inside the application, up to the closing of the main window
ShutdownNext ==
    \/ Next
    \/ closeEvent

ShutdownSpec == Init /\ [][ShutdownNext]_vars

\* The runner while calls to the OS and to QProcess may fail (the output of
\* the processes plays no part in a stop call and is left out)
OsFailNext ==
    \/ \E sid \in Sids : RunCall(sid)
    \/ \E ok \in BOOLEAN : RunStart(ok)
    \/ \E run_id \in RunIds, fail \in Failures :
          StopCallOs("kill_run", run_id, 0, {run_id}, fail, TRUE)
    \/ \E run_id \in RunIds, fail \in Failures :
          StopCallOs("terminate_run", run_id, 0, {run_id}, fail, FALSE)
    \/ \E sid \in Sids, fail \in Failures :
          StopCallOs("kill_sid", 0, sid, RunsOfSid(sid), fail, TRUE)
    \/ \E sid \in Sids, fail \in Failures :
          StopCallOs("terminate_sid", 0, sid, RunsOfSid(sid), fail, FALSE)
    \/ \E fail \in Failures : StopCallOs("kill_all", 0, 0, DOMAIN procs, fail, TRUE)
    \/ StopReturn
    \/ \E h \in DOMAIN hstate, code \in ExitCodes, dbok \in BOOLEAN : OnFinishedCall(h, code, dbok)
    \/ OnFinishedCleanup
    \/ \E sid \in Sids : delete_script(sid)

OsFailSpec == Init /\ [][OsFailNext]_vars

\* The output path of the runner with chunks of any bytes: plain ASCII, ASCII
\* followed by an invalid byte, an invalid byte alone, a two-byte sequence, a
\* two-byte sequence cut off after its lead byte
OutputBytes == {<<104>>, <<104, 255>>, <<255>>, <<195, 169>>, <<195>>}

OutputNext ==
    \/ \E sid \in Sids : RunCall(sid)
    \/ \E ok \in BOOLEAN : RunStart(ok)
    \/ \E h \in DOMAIN hstate, bytes \in OutputBytes : ReadyRead(h, "stdout", bytes)
    \/ \E h \in DOMAIN hstate, bytes \in OutputBytes : ReadyRead(h, "stderr", bytes)
    \/ \E h \in DOMAIN hstate, code \in ExitCodes, dbok \in BOOLEAN : OnFinishedCall(h, code, dbok)
    \/ OnFinishedCleanup

OutputSpec == Init /\ [][OutputNext]_vars

\* the process of run r has been spawned and its exit has not been reported
Alive(r) ==
    \E h \in DOMAIN hstate : conn[h].run_id = r /\ hstate[h] = "Running"

\* a stop call has just issued a forceful request for run r
ForcefulOn(r) ==
    /\ stack # <<>>
    /\ Top.op \in StopOps
    /\ r \in ForcefulTargets(Top.issued)

\* The operating system ends a process that got taskkill /F or SIGKILL, and
\* QProcess reports the exit of that process.
KillFairSpec ==
    /\ FairSpec
    /\ \A r \in 1..MaxRuns : [](ForcefulOn(r) => <>~Alive(r))

\* ----- properties -----------------------------------------------------------
\* positions of the events of one kind in the record of run r
At(r, kind) == {i \in DOMAIN trace[r] : trace[r][i].kind = kind}

ChunksAt(r) == At(r, "stdout") \cup At(r, "stderr")

\* C1 (persist-before-notify): every finished event of a run is preceded, in
\* the run's record, by the bump_run call of that run for the same script id;
\* finished is never observed before that call has been made.
C1_PersistBeforeNotify ==
    \A r \in DOMAIN trace : \A i \in At(r, "finished") :
        \E j \in At(r, "bump_run") : j < i /\ trace[r][j].sid = trace[r][i].sid

\* a run has exited and its finished event was delivered
C1_Witness ==
    \E r \in DOMAIN trace : At(r, "finished") # {} /\ At(r, "bump_run") # {}

\* C2 (run id uniqueness): no two run() calls, each of which creates its own
\* QProcess, are given the same run id, also not after the run that held the
\* id has finished and been removed; every id in use is below the counter.
C2_RunIdUnique ==
    [][next_handle' # next_handle =>
          /\ next_run_id \notin issued_ids
          /\ issued_ids' = issued_ids \cup {next_run_id}
          /\ next_run_id \in DOMAIN procs' /\ procs'[next_run_id] = next_handle]_vars

\* run() is being called after an earlier run has finished and been removed
C2_Witness ==
    \E r \in issued_ids, h \in DOMAIN hstate :
        /\ r \notin DOMAIN procs
        /\ hstate[h] = "Created" /\ conn[h].run_id \in DOMAIN procs

\* C3 (finished exactly once): no run ever has more than one finished event,
\* and a run whose process exit has been reported by QProcess has exactly one.
C3_FinishedOnce ==
    /\ \A r \in DOMAIN trace : Cardinality(At(r, "finished")) <= 1
    /\ \A h \in DOMAIN hstate :
          hstate[h] = "Finished"
              => Cardinality(At(conn[h].run_id, "finished")) = 1

\* the exit of a process was reported while bump_run raised
C3_Witness ==
    \E h \in DOMAIN hstate :
        /\ hstate[h] = "Finished"
        /\ run_count = [s \in Sids |-> 0]
        /\ At(conn[h].run_id, "finished") # {}

\* C4 (per-run event ordering): every stdout/stderr event of a run comes after
\* the started event of that run and before its finished event.
C4_EventOrder ==
    \A r \in DOMAIN trace : \A i \in ChunksAt(r) :
        /\ \E j \in At(r, "started") : j < i
        /\ \A j \in At(r, "finished") : i < j

\* a run with started, an output chunk and finished
C4_Witness ==
    \E r \in DOMAIN trace :
        At(r, "started") # {} /\ ChunksAt(r) # {} /\ At(r, "finished") # {}

\* ----- stop calls and the registry -------------------------------------------
\* the step is the call of a stop operation / the frame of that call
Pushed == Len(stack') = Len(stack) + 1

Called == stack'[Len(stack')]

\* the step changes nothing of the runner, its processes, its signals or the
\* catalog
Quiet == UNCHANGED <<registry, hstate, conn, trace, run_count, chunks>>

\* run r is in none of the three registry maps
NotRegistered(r) ==
    /\ r \notin DOMAIN procs
    /\ r \notin DOMAIN sid_by_run
    /\ \A s \in DOMAIN runs_by_sid : r \notin runs_by_sid[s]

\* the finished event of run r has been emitted (the record of a run is
\* dropped with its QProcess by the cleanup that follows finished)
FinishedObserved(r) ==
    /\ r \in issued_ids
    /\ r \in DOMAIN trace => At(r, "finished") # {}

\* _on_finished has returned for run r
Reconciled(r) ==
    /\ FinishedObserved(r)
    /\ \A i \in DOMAIN stack : ~(stack[i].op = "_on_finished" /\ stack[i].run_id = r)

\* the registered runs of a script, by the run -> script id map
RunsWithSid(sid) == {r \in DOMAIN sid_by_run : sid_by_run[r] = sid}

\* C5 as stated: once the finished event of a run has been emitted the run is
\* in none of the registry maps and kill_run for it issues no request.
C5_Original ==
    \A r \in issued_ids :
        FinishedObserved(r) => NotRegistered(r) /\ KillRunRequests(r) = {}

C5_Shrunk == \A r \in issued_ids : Reconciled(r) => NotRegistered(r)

\* C5 (registry shrink on completion), amended: once _on_finished has returned
\* for a run, the run is in none of the three registry maps, and a later
\* kill_run for its id issues no request and changes nothing.
C5_ShrinkOnCompletion ==
    [][/\ C5_Shrunk'
       /\ (Pushed /\ Called.op = "kill_run" /\ Reconciled(Called.run_id))
              => (Called.issued = {} /\ Quiet)]_vars

\* kill_run was called for a run that has finished and been removed, while
\* another run is registered
C5_Witness ==
    /\ stack # <<>>
    /\ Top.op = "kill_run"
    /\ Reconciled(Top.run_id)
    /\ DOMAIN procs # {}

\* C6 as stated: kill_sid issues a forceful termination request to every
\* registered run of the script and to no other run, and changes no run.
C6_Original ==
    [][(Pushed /\ Called.op = "kill_sid")
          => /\ ForcefulTargets(Called.issued) = RunsWithSid(Called.sid)
             /\ Quiet]_vars

\* C6 (script-level fan-out), amended: kill_sid issues a forceful termination
\* request to every registered run of the script whose QProcess is running and
\* to no other run; all its requests go to runs of that script; the registry
\* and the processes of all runs are left as they were.
C6_FanOut ==
    [][(Pushed /\ Called.op = "kill_sid")
          => /\ ForcefulTargets(Called.issued)
                   = {r \in RunsWithSid(Called.sid) : ProcState(procs[r]) = "Running"}
             /\ Targets(Called.issued) \subseteq RunsWithSid(Called.sid)
             /\ Quiet]_vars

\* kill_sid was called for a script with two running runs
C6_Witness ==
    /\ stack # <<>>
    /\ Top.op = "kill_sid"
    /\ Cardinality(RunsWithSid(Top.sid)) = 2
    /\ ForcefulTargets(Top.issued) = RunsWithSid(Top.sid)

\* the id passed to a stop call names no registered run
AbsentTarget(f) ==
    IF f.op \in {"kill_run", "terminate_run"}
    THEN f.run_id \notin DOMAIN sid_by_run
    ELSE RunsWithSid(f.sid) = {}

\* C7 (idempotent absence handling): terminate_run, kill_run, terminate_sid and
\* kill_sid with an id that names no registered run (never registered, or
\* finished and removed) issue no request, emit no signal and change nothing.
C7_AbsentIsNoOp ==
    [][(/\ Pushed
        /\ Called.op \in {"kill_run", "terminate_run", "kill_sid", "terminate_sid"}
        /\ AbsentTarget(Called))
          => (Called.issued = {} /\ Quiet)]_vars

\* terminate_sid was called for a script whose only run has finished and been
\* removed, while a run of the other script is running
C7_Witness ==
    /\ stack # <<>>
    /\ Top.op = "terminate_sid"
    /\ RunsWithSid(Top.sid) = {}
    /\ \E r \in issued_ids : Reconciled(r)
    /\ \E r \in DOMAIN procs : ProcState(procs[r]) = "Running"

\* C8 as stated: a run whose process could not be spawned has no entry in the
\* registry once the failure has been reported.
C8_NoDanglingEntry ==
    \A h \in DOMAIN hstate :
        hstate[h] = "FailedToStart" => NotRegistered(conn[h].run_id)

\* the process of run r could not be spawned
SpawnFailed(r) ==
    \E h \in DOMAIN hstate : hstate[h] = "FailedToStart" /\ conn[h].run_id = r

\* an error-tagged chunk or a finished event with a non-zero exit code was
\* emitted for run r
Surfaced(r) ==
    /\ r \in DOMAIN trace
    /\ \E i \in DOMAIN trace[r] :
          \/ trace[r][i].kind = "stderr"
          \/ trace[r][i].kind = "finished" /\ trace[r][i].code # 0

\* C9 as stated: when the process of a run cannot be spawned, subscribers
\* eventually observe an error indication for it.
C9_SpawnFailureSurfaced ==
    \A r \in RunIds : [](SpawnFailed(r) => <>Surfaced(r))

\* C10 (concurrent runs permitted): every run() call, whatever runs are
\* active, adds a registry entry under a run id that was not registered, with
\* a QProcess no other run has and the script id passed to the call, and
\* leaves the entries and processes of the earlier runs as they were.
C10_ConcurrentRuns ==
    [][next_handle' # next_handle
          => /\ next_run_id \notin DOMAIN procs
             /\ DOMAIN procs' = DOMAIN procs \cup {next_run_id}
             /\ procs'[next_run_id] = next_handle
             /\ next_handle \notin {procs[r] : r \in DOMAIN procs}
             /\ DOMAIN sid_by_run' = DOMAIN sid_by_run \cup {next_run_id}
             /\ sid_by_run'[next_run_id] = Called.sid
             /\ next_run_id \in runs_by_sid'[Called.sid]
             /\ \A r \in DOMAIN procs :
                   /\ procs'[r] = procs[r]
                   /\ sid_by_run'[r] = sid_by_run[r]
                   /\ hstate'[procs[r]] = hstate[procs[r]]
                   /\ r \in runs_by_sid'[sid_by_run[r]]]_vars

\* two runs of the same script are registered and running, each with its own
\* QProcess
C10_Witness ==
    \E r1, r2 \in DOMAIN procs :
        /\ r1 # r2
        /\ sid_by_run[r1] = sid_by_run[r2]
        /\ procs[r1] # procs[r2]
        /\ ProcState(procs[r1]) = "Running"
        /\ ProcState(procs[r2]) = "Running"

\* ----- attribution -----------------------------------------------------------
\* the script id passed to the run() call of run r, as announced by started
StartedSid(r) == trace[r][1].sid

\* C11 (event attribution): every stdout/stderr chunk and every finished event
\* in the record of a run carries the run's own id and the script id that was
\* passed to the run() call which created its process, whatever other runs
\* are active; it never carries the script id of another run.
C11_Attribution ==
    \A r \in DOMAIN trace : \A i \in ChunksAt(r) \cup At(r, "finished") :
        /\ trace[r][i].run = r
        /\ trace[r][i].sid = StartedSid(r)
        /\ r \in DOMAIN sid_by_run /\ trace[r][i].sid = sid_by_run[r]

\* two runs of different scripts are active at once; the older one has written
\* a chunk and the younger one has exited
C11_Witness ==
    \E r1, r2 \in DOMAIN trace :
        /\ r1 < r2
        /\ StartedSid(r1) # StartedSid(r2)
        /\ ChunksAt(r1) # {}
        /\ At(r2, "finished") # {}

\* ----- the registry changes only in run() and in _on_finished ---------------
Registered == DOMAIN procs \cup DOMAIN sid_by_run \cup UNION {runs_by_sid[s] : s \in DOMAIN runs_by_sid}

\* the step is the cleanup of _on_finished for run r
CleanupOf(r) ==
    /\ stack # <<>>
    /\ Top.op = "_on_finished"
    /\ Top.run_id = r
    /\ stack' = Pop

\* C12 (no independent deletion path): a run enters the registry only in a
\* run() call; it leaves the registry only in the cleanup of _on_finished for
\* that run, after its finished event; every stop call (terminate_run,
\* terminate_sid, kill_run, kill_sid, kill_all) leaves the three maps and the
\* run id counter as they were.
C12_NoIndependentDeletion ==
    [][/\ \A r \in Registered' \ Registered :
             next_handle' # next_handle /\ r = next_run_id
       /\ \A r \in RunIds :
             (r \in Registered /\ (r \notin DOMAIN procs' \/ r \notin DOMAIN sid_by_run'
                                     \/ r \notin UNION {runs_by_sid'[s] : s \in DOMAIN runs_by_sid'}))
                 => (CleanupOf(r) /\ At(r, "finished") # {})
       /\ next_run_id' # next_run_id => next_handle' # next_handle
       /\ (Pushed /\ Called.op \in StopOps) => UNCHANGED registry]_vars

\* kill_run has been called for a running run and has issued its requests;
\* the run is still in all three maps
C12_Witness ==
    \E r \in DOMAIN procs :
        /\ ProcState(procs[r]) = "Running"
        /\ stack # <<>>
        /\ Top.op = "kill_run"
        /\ Top.run_id = r
        /\ Top.issued # {}
        /\ r \in DOMAIN sid_by_run
        /\ r \in runs_by_sid[sid_by_run[r]]

\* ----- kill, then finish ----------------------------------------------------
\* kill_sid has been called for the script of run r while the process of r is
\* running
KillSidOn(r) ==
    /\ stack # <<>>
    /\ Top.op = "kill_sid"
    /\ r \in RunsWithSid(Top.sid)
    /\ Alive(r)

\* the finished event of run r has been emitted with the script id of r
FinishedFor(r) ==
    /\ r \in DOMAIN trace
    /\ \E i \in At(r, "finished") : trace[r][i].sid = StartedSid(r)

\* C13 (kill then finish): when kill_sid is called for the script of a run
\* whose process is running, the run eventually is in none of the registry
\* maps (the operating system reporting the exit of a killed process), and
\* the step in which the exit of its process is reported emits the finished
\* event of the run with its script id.
C13_KillThenFinish ==
    /\ \A r \in 1..MaxRuns : KillSidOn(r) ~> NotRegistered(r)
    /\ [][\A r \in 1..MaxRuns : Alive(r) /\ ~Alive(r)' => FinishedFor(r)']_vars

\* kill_sid was called from the event loop, after run() had returned, for the
\* script of a running run and has issued a forceful request for it
C13_Witness ==
    \E r \in DOMAIN procs :
        /\ Len(stack) = 1
        /\ KillSidOn(r)
        /\ r \in ForcefulTargets(Top.issued)

\* ----- _on_finished with an unknown run id -----------------------------------
\* C14 (unknown run id in the reconciler): when _on_finished is entered with a
\* run id that is in no registry map and exit code `code`, it emits exactly
\* one finished event, with script id -1 and that exit code, after its
\* bump_run call, changes no catalog row, no registry map and no process, and
\* hands control to the finished subscriber (it does not raise); its cleanup
\* then removes nothing that was registered when it was entered.
C14_UnknownRunId ==
    [][/\ \A code \in ExitCodes :
             (/\ Pushed
              /\ Called.op = "_on_finished"
              /\ Called.run_id \notin DOMAIN sid_by_run
              /\ \E dbok \in BOOLEAN : OnFinishedUnknown(Called.run_id, code, dbok))
                 => /\ Called.sid = UnknownSid
                    /\ trace'[Called.run_id]
                         = << Event("bump_run", Called.run_id, UnknownSid, 0, <<>>),
                              Event("finished", Called.run_id, UnknownSid, code, <<>>) >>
                    /\ UNCHANGED <<registry, hstate, conn, run_count>>
       /\ (/\ stack # <<>>
           /\ Top.op = "_on_finished"
           /\ Top.sid = UnknownSid
           /\ Top.run_id \notin DOMAIN sid_by_run
           /\ stack' = Pop)
              => UNCHANGED <<registry, hstate, conn, run_count>>]_vars

\* _on_finished was entered with the id of a run that had finished and been
\* removed, while another run is running, and has emitted finished(-1, 1)
C14_Witness ==
    /\ stack # <<>>
    /\ Top.op = "_on_finished"
    /\ Top.sid = UnknownSid
    /\ Top.run_id \in issued_ids
    /\ Top.run_id \in DOMAIN trace
    /\ \E i \in At(Top.run_id, "finished") :
          trace[Top.run_id][i].sid = UnknownSid /\ trace[Top.run_id][i].code = 1
    /\ \E r \in DOMAIN procs : ProcState(procs[r]) = "Running"

\* ----- bump_run fails ----------------------------------------------------------
\* C15 (persistence failure does not block completion): when the exit of a
\* process is reported and bump_run raises, or the row of the script has been
\* deleted, no row changes, the finished event of the run is still emitted
\* with its script id and the exit code, and the finished subscriber runs;
\* when _on_finished returns the run is in none of the registry maps.
C15_PersistenceFailure ==
    [][/\ \A h \in DOMAIN hstate, code \in ExitCodes :
             LET r == conn[h].run_id
                 sid == Get(sid_by_run, r, UnknownSid)
             IN  (\/ OnFinishedCall(h, code, FALSE)
                  \/ OnFinishedCall(h, code, TRUE) /\ sid \notin DOMAIN run_count)
                    => /\ run_count' = run_count
                       /\ sid \in Sids
                       /\ trace'[r] = trace[r] \o << Event("bump_run", r, sid, 0, <<>>),
                                                     Event("finished", r, sid, code, <<>>) >>
                       /\ Pushed
                       /\ Called.op = "_on_finished"
                       /\ Called.run_id = r
       /\ \A r \in RunIds : CleanupOf(r) => NotRegistered(r)']_vars

\* the row of a script was deleted while its run was active; the run has
\* exited and its finished event has been emitted
C15_Witness ==
    /\ stack # <<>>
    /\ Top.op = "_on_finished"
    /\ Top.sid \in Sids \ DOMAIN run_count
    /\ \E i \in At(Top.run_id, "finished") : trace[Top.run_id][i].sid = Top.sid

\* ----- run statistics --------------------------------------------------------
\* what the step appends to the record of run r
Appended(r) ==
    IF r \in DOMAIN trace /\ r \in DOMAIN trace' /\ Len(trace'[r]) > Len(trace[r])
    THEN SubSeq(trace'[r], Len(trace[r]) + 1, Len(trace'[r]))
    ELSE <<>>

\* the number of events of one kind for script s that the step emits
EmittedFor(kind, s) ==
    IF trace' = trace THEN 0
    ELSE Cardinality({<<r, i>> \in RunIds \X (1..2) :
                         /\ i \in DOMAIN Appended(r)
                         /\ Appended(r)[i].kind = kind
                         /\ Appended(r)[i].sid = s})

\* the rows of the scripts table that exist before and after the step
KeptRows == DOMAIN run_count \cap DOMAIN run_count'

\* C16 as stated: the run_count of an existing script grows by exactly the
\* number of finished events emitted for that script, in every step.
C16_Original ==
    [][\A s \in KeptRows :
          run_count'[s] = run_count[s] + EmittedFor("finished", s)]_vars

\* C16 (run statistics match completions), amended: bump_run is called exactly
\* once per finished event, with the same script id; a call that does not
\* raise adds exactly one to the run_count of an existing script and a call
\* that raises adds nothing; run_count changes in no other step, so it never
\* decreases and never exceeds its initial value plus the number of finished
\* events emitted for the script.
C16_RunStatistics ==
    [][\A s \in KeptRows :
          /\ EmittedFor("bump_run", s) = EmittedFor("finished", s)
          /\ EmittedFor("finished", s) <= 1
          /\ run_count'[s] >= run_count[s]
          /\ run_count'[s] <= run_count[s] + EmittedFor("finished", s)
          /\ \A h \in DOMAIN hstate, code \in ExitCodes :
                /\ (OnFinishedCall(h, code, TRUE) /\ conn[h].sid = s)
                      => run_count'[s] = run_count[s] + 1
                /\ (OnFinishedCall(h, code, FALSE) /\ conn[h].sid = s)
                      => run_count'[s] = run_count[s]]_vars

\* two runs of one script have exited, the finished event of the second has
\* just been emitted, and bump_run raised for one of them: the run_count of
\* the script is 1
C16_Witness ==
    /\ stack # <<>>
    /\ Top.op = "_on_finished"
    /\ Top.sid \in DOMAIN run_count
    /\ run_count[Top.sid] = 1
    /\ At(Top.run_id, "finished") # {}
    /\ \E r \in issued_ids : r # Top.run_id /\ Reconciled(r)
    /\ \A s \in DOMAIN run_count : s # Top.sid => run_count[s] = 0

\* ----- kill_all --------------------------------------------------------------
\* C17 as stated: kill_all issues a forceful termination request to every run
\* that is in the registry when it is called, and to nothing else.
C17_Original ==
    [][(Pushed /\ Called.op = "kill_all")
          => ForcefulTargets(Called.issued) = Registered]_vars

\* C17 (kill_all covers the whole registry), amended: kill_all issues a
\* forceful termination request to every registered run whose QProcess is
\* running, whatever its script id, and to no other run; all its requests go
\* to registered runs; the registry and the processes are left as they were.
C17_KillAll ==
    [][(Pushed /\ Called.op = "kill_all")
          => /\ ForcefulTargets(Called.issued)
                   = {r \in Registered : r \in DOMAIN procs /\ ProcState(procs[r]) = "Running"}
             /\ Targets(Called.issued) \subseteq Registered
             /\ Quiet]_vars

\* kill_all was called while a run of each script was running and has issued
\* a forceful request for both
C17_Witness ==
    /\ stack # <<>>
    /\ Top.op = "kill_all"
    /\ \E r1, r2 \in ForcefulTargets(Top.issued) : sid_by_run[r1] # sid_by_run[r2]
    /\ ForcefulTargets(Top.issued) = Registered

\* ----- shutdown ----------------------------------------------------------------
\* C18 as stated: once the main window has been closed, every run that is
\* still registered has received a forceful termination request from the
\* closing (kill_all was invoked).
C18_ShutdownKills ==
    (stack # <<>> /\ Top.op = "closeEvent")
        => \A r \in Registered : r \in ForcefulTargets(Top.issued)

\* ----- process trees ---------------------------------------------------------
\* C19 as stated: when kill_run or kill_sid has issued a forceful request for
\* a run, no descendant of the process of that run is alive.
C19_TreeKilled ==
    \A r \in DOMAIN procs :
        (/\ stack # <<>>
         /\ Top.op \in {"kill_run", "kill_sid"}
         /\ r \in ForcefulTargets(Top.issued))
            => procs[r] \notin descendants

\* ----- the value of run() ------------------------------------------------------
\* C20 as stated: the value run() returns to its caller is the run id under
\* which the call registered the new run.
C20_ReturnsRunId ==
    \A r \in DOMAIN returned : returned[r] = PyInt(r)

\* ----- started ---------------------------------------------------------------
\* the run() calls that have not returned yet
RunFrames == {i \in DOMAIN stack : stack[i].op = "run"}

\* the parts of a command line
Parts(cmdline) == {cmdline[i] : i \in DOMAIN cmdline}

\* C21 (started once, synchronously): the record of every run holds exactly
\* one started event, as its first event (before every output chunk), with
\* the script id the run was registered under and a command line that
\* contains the path of the script; while a run() call has not returned, the
\* started event of its run has been emitted already and carries the script
\* id passed to the call.
C21_StartedOnce ==
    /\ \A r \in DOMAIN trace :
          /\ At(r, "started") = {1}
          /\ r \in DOMAIN sid_by_run => trace[r][1].sid = sid_by_run[r]
          /\ ScriptPath(trace[r][1].sid) \in Parts(trace[r][1].text)
    /\ \A i \in RunFrames :
          /\ stack[i].run_id \notin DOMAIN returned
          /\ stack[i].run_id \in DOMAIN trace
          /\ trace[stack[i].run_id][1].sid = stack[i].sid
          /\ hstate[stack[i].h] = "Created"
    /\ \A r \in issued_ids :
          r \in DOMAIN returned \/ \E i \in RunFrames : stack[i].run_id = r

\* a run() call for script 2 has emitted started and has not returned, while
\* an earlier run is running and has written a chunk
C21_Witness ==
    /\ stack # <<>>
    /\ Top.op = "run"
    /\ Top.sid = 2
    /\ trace[Top.run_id] =
          <<Event("started", Top.run_id, 2, 0, CmdLine(ScriptPath(2), ScriptArgs(2)))>>
    /\ \E r \in DOMAIN trace : r # Top.run_id /\ ChunksAt(r) # {}
\* C22: kill_run, terminate_run, kill_sid, terminate_sid and kill_all return
\* normally whichever call to the OS or to QProcess fails (the pid query, the
\* signal or taskkill, the state query, the QProcess request): no exception
\* leaves the call, and the registry and the processes are as before it.
C22_StopNeverRaises ==
    [][(Pushed /\ Called.op \in StopOps)
          => (raised' = None /\ UNCHANGED registry /\ UNCHANGED <<hstate, conn>>)]_vars

\* kill_run on Windows for a registered, running run whose pid query failed:
\* no taskkill, only QProcess.kill was requested, and the run is registered
C22_Witness ==
    /\ win
    /\ stack # <<>>
    /\ Top.op = "kill_run"
    /\ Top.run_id \in DOMAIN procs
    /\ ProcState(procs[Top.run_id]) = "Running"
    /\ Top.issued = {Request(Top.run_id, "QProcess.kill")}
    /\ raised = None
    /\ Top.run_id \in DOMAIN sid_by_run

\* what the runner holds for run r: its QProcess, its script id, the sets it is
\* in, the state and connections of its QProcess, the events emitted for it
HandleOf(r) == {procs[q] : q \in {r} \cap DOMAIN procs}

RunView(r) ==
    << HandleOf(r),
       {sid_by_run[q] : q \in {r} \cap DOMAIN sid_by_run},
       {s \in DOMAIN runs_by_sid : r \in runs_by_sid[s]},
       {<<hstate[h], conn[h]>> : h \in HandleOf(r) \cap DOMAIN hstate},
       Get(trace, r, <<>>) >>

\* C23 (failure isolation): every step - an exit with any code, the cleanup
\* after it, a failed or successful spawn, a failing bump_run, a chunk of any
\* bytes - changes what the runner holds for at most one run, so the registry
\* entries, the QProcess, its state and connections and the events of every
\* other run are as before; kill_run and terminate_run make requests to the
\* process of their run only; and no run has more than one finished event.
C23_FailureIsolation ==
    [][/\ Cardinality({r \in RunIds : RunView(r)' # RunView(r)}) <= 1
       /\ (Pushed /\ Called.op \in {"kill_run", "terminate_run"})
             => \A q \in Called.issued : q.run = Called.run_id
       /\ \A r \in DOMAIN trace' : Cardinality(At(r, "finished")') <= 1]_vars

\* one run has exited with exit code 1 and its finished subscriber is running;
\* another run is registered, its process runs, its connections are in place,
\* it has delivered output and has no finished event yet
C23_Witness ==
    /\ stack # <<>>
    /\ Top.op = "_on_finished"
    /\ \E i \in At(Top.run_id, "finished") : trace[Top.run_id][i].code = 1
    /\ \E q \in DOMAIN procs :
          /\ q # Top.run_id
          /\ hstate[procs[q]] = "Running"
          /\ conn[procs[q]].run_id = q
          /\ ChunksAt(q) # {}
          /\ At(q, "finished") = {}

\* C24 (decode resilience): a ready-read notification with any bytes - also
\* bytes that are no valid UTF-8 - appends exactly one chunk event to the record
\* of its run, holding the code points of the valid sequences, and leaves the
\* process running and connected; when the process exits afterwards, the run
\* gets its finished event with one of the exit codes of the process.
C24_DecodeResilience ==
    [][/\ chunks' # chunks
          => /\ \E r \in DOMAIN trace :
                   /\ r \in DOMAIN trace'
                   /\ Len(trace'[r]) = Len(trace[r]) + 1
                   /\ SubSeq(trace'[r], 1, Len(trace[r])) = trace[r]
                   /\ trace'[r][Len(trace'[r])].kind \in {"stdout", "stderr"}
                   /\ trace'[r][Len(trace'[r])].text \in {<<>>, <<104>>, <<233>>}
                   /\ \A q \in DOMAIN trace \ {r} : q \in DOMAIN trace' /\ trace'[q] = trace[q]
             /\ UNCHANGED <<hstate, conn, registry, raised>>
       /\ \A r \in RunIds :
             (Alive(r) /\ ~Alive(r)')
                => /\ r \in DOMAIN trace'
                   /\ Len(trace'[r]) = Len(trace[r]) + 2
                   /\ At(r, "finished")' = {Len(trace'[r])}
                   /\ trace'[r][Len(trace'[r])].code \in ExitCodes]_vars

\* a run whose record holds a chunk of which every byte was dropped (the
\* chunk <<255>> or <<195>>) and, after it, its finished event with exit code 1
C24_Witness ==
    \E r \in DOMAIN trace : \E i \in ChunksAt(r) : \E j \in At(r, "finished") :
        /\ trace[r][i].text = <<>>
        /\ i < j
        /\ trace[r][j].code = 1

\* C25 as stated: in every state every registered run id has exactly one
\* QProcess, the process of that QProcess has been spawned and has not exited,
\* and no QProcess belongs to two run ids.
C25_LiveHandle ==
    /\ \A r \in Registered :
          /\ r \in DOMAIN procs
          /\ procs[r] \in DOMAIN hstate
          /\ hstate[procs[r]] = "Running"
    /\ \A r, q \in DOMAIN procs : r # q => procs[r] # procs[q]

\* the frames of _on_finished whose finished subscribers are running
ReconcilerFrames == {i \in DOMAIN stack : stack[i].op = "_on_finished"}

\* C26 (reconciler step order): while the subscribers of finished run for a
\* run, whatever they call, the script id has been resolved from the registry,
\* bump_run has been called for it and finished has been emitted with it, in
\* that order, as the last two events of the run; and the run is still in all
\* three maps with its QProcess not released.  A QProcess whose exit has been
\* reported and a run whose finished event has been emitted are in that phase:
\* the release never comes before the emit.
C26_ReconcilerOrder ==
    /\ \A i \in ReconcilerFrames :
          LET r == stack[i].run_id
              s == stack[i].sid
          IN  /\ r \in DOMAIN trace
              /\ Len(trace[r]) >= 2
              /\ trace[r][Len(trace[r]) - 1] = Event("bump_run", r, s, 0, <<>>)
              /\ trace[r][Len(trace[r])].kind = "finished"
              /\ trace[r][Len(trace[r])].sid = s
              /\ s # UnknownSid
                    => /\ r \in DOMAIN procs
                       /\ procs[r] = stack[i].h
                       /\ stack[i].h \in DOMAIN hstate
                       /\ hstate[stack[i].h] = "Finished"
                       /\ r \in DOMAIN sid_by_run
                       /\ sid_by_run[r] = s
                       /\ s \in DOMAIN runs_by_sid
                       /\ r \in runs_by_sid[s]
    /\ \A h \in DOMAIN hstate :
          hstate[h] = "Finished" => \E i \in ReconcilerFrames : stack[i].h = h
    /\ \A r \in DOMAIN trace :
          At(r, "finished") # {} => \E i \in ReconcilerFrames : stack[i].run_id = r

\* a finished subscriber calls kill_sid for the script of the finishing run:
\* the call finds the run among the runs of the script
C26_Witness ==
    /\ Len(stack) = 2
    /\ stack[1].op = "_on_finished"
    /\ stack[2].op = "kill_sid"
    /\ stack[2].sid = stack[1].sid
    /\ stack[1].run_id \in RunsOfSid(stack[1].sid)
    /\ At(stack[1].run_id, "finished") = {Len(trace[stack[1].run_id])}

\* C27 (registry map consistency): in every state - after every operation and
\* while subscribers run inside one - _procs and _sid_by_run have the same
\* keys, _runs_by_sid[s] is exactly the set of run ids that _sid_by_run maps to
\* s, no script id maps to the empty set, and every registered run id is
\* smaller than _next_run_id.
C27_RegistryConsistent ==
    /\ DOMAIN procs = DOMAIN sid_by_run
    /\ \A s \in DOMAIN runs_by_sid :
          /\ runs_by_sid[s] = {r \in DOMAIN sid_by_run : sid_by_run[r] = s}
          /\ runs_by_sid[s] # {}
    /\ \A r \in DOMAIN sid_by_run : sid_by_run[r] \in DOMAIN runs_by_sid
    /\ \A r \in Registered : r < next_run_id

\* two runs of one script were started and the first has been reconciled:
\* the set of the script holds the second run only
C27_Witness ==
    /\ stack = <<>>
    /\ next_run_id = 3
    /\ DOMAIN procs = {2}
    /\ \E s \in DOMAIN runs_by_sid : runs_by_sid[s] = {2} /\ s \in DOMAIN run_count /\ run_count[s] = 1

\* run q is in all three maps
FullyRegistered(q) ==
    /\ q \in DOMAIN procs
    /\ q \in DOMAIN sid_by_run
    /\ sid_by_run[q] \in DOMAIN runs_by_sid
    /\ q \in runs_by_sid[sid_by_run[q]]

\* C28 (re-entrant run from a finished subscriber): a run() call made while a
\* finished subscriber runs - also for the script of the finishing run - gets
\* a run id that is not registered and is not the finishing one, and is fully
\* registered; the cleanup that follows removes the finishing run id only:
\* every other run keeps its QProcess, its script id and its place in the set
\* of its script, so that set is not dropped while the new run is in it.
C28_ReentrantRun ==
    [][/\ (Pushed /\ Called.op = "run" /\ ReconcilerFrames # {})
             => /\ Called.run_id \notin Registered
                /\ \A i \in ReconcilerFrames : stack[i].run_id # Called.run_id
                /\ \A q \in RunIds : q = Called.run_id => FullyRegistered(q)' /\ sid_by_run'[q] = Called.sid
       /\ \A r \in RunIds :
             CleanupOf(r)
                => /\ NotRegistered(r)'
                   /\ \A q \in DOMAIN sid_by_run \ {r} :
                         /\ FullyRegistered(q)'
                         /\ procs'[q] = procs[q]
                         /\ sid_by_run'[q] = sid_by_run[q]]_vars

\* a finished subscriber has called run() for the script of the finishing
\* run: both runs are in the set of that script, under different run ids
C28_Witness ==
    /\ Len(stack) = 2
    /\ stack[1].op = "_on_finished"
    /\ stack[2].op = "run"
    /\ stack[2].sid = stack[1].sid
    /\ stack[2].run_id # stack[1].run_id
    /\ runs_by_sid[stack[1].sid] = {stack[1].run_id, stack[2].run_id}

\* C29 (stop before spawn): while the started subscribers of a run execute,
\* the run is in all three maps and its QProcess has not been started, so it
\* has no process id and is NotRunning; a stop call made then (kill_run,
\* terminate_run, kill_sid, terminate_sid, kill_all; on any platform) makes no
\* request for that run and changes nothing; and when the subscribers have
\* returned, run() starts the process all the same.
C29_StopBeforeSpawn ==
    [][/\ \A i \in RunFrames :
             /\ FullyRegistered(stack[i].run_id)
             /\ procs[stack[i].run_id] = stack[i].h
             /\ ProcessId(stack[i].h) = 0
             /\ ProcState(stack[i].h) = "NotRunning"
       /\ (Pushed /\ Called.op \in StopOps)
             => /\ \A i \in RunFrames : \A q \in Called.issued : q.run # stack[i].run_id
                /\ Quiet
       /\ (stack # <<>> /\ Top.op = "run" /\ stack' = Pop)
             => /\ hstate[Top.h] = "Created"
                /\ hstate'[Top.h] \in {"Running", "FailedToStart"}]_vars

\* not on Windows, a started subscriber has called kill_sid for the script of
\* the run being started: the run is among the runs of the script and no
\* request was made
C29_Witness ==
    /\ ~win
    /\ Len(stack) = 2
    /\ stack[1].op = "run"
    /\ stack[2].op = "kill_sid"
    /\ stack[2].sid = stack[1].sid
    /\ stack[1].run_id \in RunsOfSid(stack[1].sid)
    /\ stack[2].issued = {}
    /\ hstate[stack[1].h] = "Created"

\* the QProcess objects of script s whose exit is reported in the step
ExitsOf(s) == {h \in DOMAIN hstate : /\ hstate[h] = "Running"
                                      /\ h \in DOMAIN hstate'
                                      /\ hstate'[h] = "Finished"
                                      /\ conn[h].sid = s}

\* C30 (recordRun call sites): bump_run is called once for every exit
\* notification, whatever the exit code and whether or not the process was
\* killed, and in no other step: not by run() (the call and the start), not
\* by a stop call; run_count changes only in the step of an exit notification
\* of the script; and a run whose process could not be spawned has no
\* bump_run call.
C30_RecordRunCallSites ==
    [][/\ \A s \in Sids : EmittedFor("bump_run", s) = Cardinality(ExitsOf(s))
       /\ \A s \in KeptRows : run_count'[s] # run_count[s] => ExitsOf(s) # {}
       /\ (Pushed /\ Called.op \in StopOps \cup {"run"})
             => /\ run_count' = run_count
                /\ \A s \in Sids : EmittedFor("bump_run", s) = 0
       /\ (stack # <<>> /\ Top.op = "run" /\ stack' = Pop)
             => /\ run_count' = run_count
                /\ \A s \in Sids : EmittedFor("bump_run", s) = 0
       /\ \A r \in DOMAIN trace' :
             (\E h \in DOMAIN hstate' : conn'[h].run_id = r /\ hstate'[h] # "Finished")
                => At(r, "bump_run")' = {}]_vars

\* a run has exited with exit code 1 and bump_run was called for it, raising
\* the run_count of its script to 1, while a run of the other script, whose
\* process could not be spawned, has no bump_run call and run_count 0
C30_Witness ==
    /\ stack # <<>>
    /\ Top.op = "_on_finished"
    /\ \E i \in At(Top.run_id, "finished") : trace[Top.run_id][i].code = 1
    /\ At(Top.run_id, "bump_run") # {}
    /\ DOMAIN run_count = Sids
    /\ run_count[Top.sid] = 1
    /\ \E q \in DOMAIN sid_by_run :
          /\ SpawnFailed(q)
          /\ sid_by_run[q] # Top.sid
          /\ run_count[sid_by_run[q]] = 0
          /\ At(q, "bump_run") = {}

====
